---- MODULE Spec2Model ----
(***************************************************************************)
(* Model of chart/view_embeddings.py: one run of the script, from the      *)
(* __main__ block to process exit.                                         *)
(*                                                                         *)
(* Representation.                                                         *)
(*  - A numpy array is represented by its shape (a tuple of dimensions);   *)
(*    every branch of the script depends only on ndim and on the           *)
(*    dimensions.  Stored arrays are finite real arrays in which every     *)
(*    dimension is at least 1.                                             *)
(*  - A projected coordinate is represented by the pair (row, pc): the     *)
(*    projection of centred row `row` (0-based) onto principal direction   *)
(*    `pc` (0-based).  Its numeric value is not computed.                  *)
(*  - The file system is a function from path to [exists, data].           *)
(*  - A local variable of main is <<>> while unbound and <<v>> once bound. *)
(*  - A call result is [err, val, io]: err is <<>> or <<exception>>, io    *)
(*    the file-system calls the call made, in order.                       *)
(***************************************************************************)
EXTENDS Integers, Sequences, FiniteSets, TLC

VARIABLES argv, fs, pc, output_path, embeddings, labels, coords,
          coords_tuples, html, err, io, stdout, stderr, exit_status

vars == <<argv, fs, pc, output_path, embeddings, labels, coords,
          coords_tuples, html, err, io, stdout, stderr, exit_status>>

(* ------------------------------ bounds -------------------------------- *)
\* Largest dimension of a stored array.
MaxDim == 3
\* Largest number of dimensions of a stored array.
MaxRank == 3
\* Largest number of records in the metadata array.
MaxItems == 3
\* Longest point sequence and longest label sequence handed to _build_html
\* when it is exercised on its own.
MaxPoints == 3
MaxLabels == 3

(* --------------------------- module constants ------------------------- *)
DATA_FILE == "embeddings_index.npz"
META_FILE == "embeddings_meta.json"
DEFAULT_OUTPUT == "embeddings_view.html"

\* A command-line output path, and the working directory paths resolve in.
ArgOutput == "out.html"
Cwd == "/cwd"

(* ------------------------------ helpers ------------------------------- *)
Min(a, b) == IF a <= b THEN a ELSE b

Digit(d) == <<"0", "1", "2", "3", "4", "5", "6", "7", "8", "9">>[d + 1]

RECURSIVE NatToStr(_)
NatToStr(n) == IF n < 10 THEN Digit(n) ELSE NatToStr(n \div 10) \o Digit(n % 10)

\* str(n) for an int n.
IntToStr(n) == IF n < 0 THEN "-" \o NatToStr(-n) ELSE NatToStr(n)

\* str(v) for a JSON value v = [t, s, n].
PyStr(v) ==
  CASE v.t = "str" -> v.s
    [] v.t = "int" -> IntToStr(v.n)
    [] v.t = "null" -> "None"

StrVal(s) == [t |-> "str", s |-> s, n |-> 0]
IntVal(n) == [t |-> "int", s |-> "", n |-> n]

\* Exceptions and the part of Python's class hierarchy the script can meet.
\* `where` is the function whose frame raised it.
Exc(type, msg, where) == [type |-> type, msg |-> msg, where |-> where]

IsInstance(e, cls) ==
  \/ e.type = cls
  \/ cls = "ValueError" /\ e.type = "JSONDecodeError"
  \/ cls = "OSError" /\ e.type \in {"FileNotFoundError", "PermissionError"}
  \/ cls = "LookupError" /\ e.type = "IndexError"

Ok(val, ioCalls) == [err |-> <<>>, val |-> val, io |-> ioCalls]
Fail(e, ioCalls) == [err |-> <<e>>, val |-> <<>>, io |-> ioCalls]

IoCall(op, path) == [op |-> op, path |-> path]

(* ------------------------------- inputs ------------------------------- *)
\* Shapes of stored arrays: rank 0..MaxRank.  A rank-1 array has 0..MaxDim
\* elements; from rank 2 on every dimension is in 1..MaxDim, and dimensions
\* after the second repeat the second (the script never reads them).
Shapes ==
  {<<>>} \cup {<<n>> : n \in 0..MaxDim}
         \cup {[i \in 1..r |-> IF i = 1 THEN nd[1] ELSE nd[2]] :
                 r \in 2..MaxRank, nd \in (1..MaxDim) \X (1..MaxDim)}

\* Contents of the array store: the arrays of npz.files, in order.
Stores ==
  {<<>>} \cup {<<s>> \o rest : s \in Shapes, rest \in {<<>>, << <<1>> >>}}

\* A metadata record: a JSON object with or without "filename", or a
\* JSON value that is not an object.
Entries ==
  { [kind |-> "dict", has |-> TRUE, filename |-> StrVal("a.txt")],
    [kind |-> "dict", has |-> TRUE, filename |-> IntVal(7)],
    [kind |-> "dict", has |-> FALSE, filename |-> StrVal("")],
    [kind |-> "other", has |-> FALSE, filename |-> StrVal("")] }

SeqsUpTo(S, n) == UNION {[1..k -> S] : k \in 0..n}

\* Contents of the metadata file: text that is not JSON, a JSON scalar
\* without a length, or a JSON array of records.
MetaTexts ==
  { [kind |-> "invalid", items |-> <<>>], [kind |-> "scalar", items |-> <<>>] }
    \cup { [kind |-> "list", items |-> s] : s \in SeqsUpTo(Entries, MaxItems) }

Absent == [exists |-> FALSE, data |-> <<>>]
File(d) == [exists |-> TRUE, data |-> d]

\* Prior content of an output file.
OldText == [kind |-> "old", payload |-> <<>>]

Paths == {DATA_FILE, META_FILE, DEFAULT_OUTPUT, ArgOutput}

(* ---------------------------- _load_embeddings ------------------------ *)
\* np.load(npz_path).files: the arrays of the store, in stored order.
NpzFiles(npz_path) == fs[npz_path].data

_load_embeddings(npz_path) ==
  LET seen == <<IoCall("exists", npz_path)>>
      loaded == seen \o <<IoCall("load", npz_path)>>
  IN  IF ~fs[npz_path].exists
        THEN Fail(Exc("FileNotFoundError", "NPZ file not found", "_load_embeddings"), seen)
      ELSE IF Len(NpzFiles(npz_path)) = 0
        THEN Fail(Exc("ValueError", "No arrays stored", "_load_embeddings"), loaded)
      ELSE Ok(NpzFiles(npz_path)[1], loaded)

(* ------------------------------ _load_labels -------------------------- *)
\* Variant of Placeholder that numbers the records from 1.
PlaceholderOneBased(idx) == "item " \o IntToStr(idx + 1)

\* f"item {idx}" for the 0-based index idx.
Placeholder(idx) == "item " \o IntToStr(idx)

\* str(entry.get("filename", f"item {idx}")) for a dict entry.
Label(entry, idx) ==
  IF entry.has THEN PyStr(entry.filename) ELSE Placeholder(idx)

\* The list comprehension of line 32 over items (Python index = TLA index - 1).
LabelsOf(items) == [k \in 1..Len(items) |-> Label(items[k], k - 1)]

\* Variant of _load_labels without the count check of lines 28-31.
_load_labels_unchecked(meta_path, expected) ==
  LET seen == <<IoCall("exists", meta_path)>>
      read == seen \o <<IoCall("read", meta_path)>>
      text == fs[meta_path].data
      items == text.items
  IN  IF ~fs[meta_path].exists
        THEN Fail(Exc("FileNotFoundError", "JSON metadata not found", "_load_labels"), seen)
      ELSE IF text.kind = "invalid"
        THEN Fail(Exc("JSONDecodeError", "Expecting value", "_load_labels"), read)
      ELSE IF text.kind = "scalar"
        THEN Fail(Exc("TypeError", "object has no len()", "_load_labels"), read)
      ELSE IF \E k \in 1..Len(items) : items[k].kind # "dict"
        THEN Fail(Exc("AttributeError", "object has no attribute 'get'", "_load_labels"), read)
      ELSE Ok(LabelsOf(items), read)

_load_labels(meta_path, expected) ==
  LET seen == <<IoCall("exists", meta_path)>>
      read == seen \o <<IoCall("read", meta_path)>>
      text == fs[meta_path].data
      items == text.items
  IN  IF ~fs[meta_path].exists
        THEN Fail(Exc("FileNotFoundError", "JSON metadata not found", "_load_labels"), seen)
      ELSE IF text.kind = "invalid"
        THEN Fail(Exc("JSONDecodeError", "Expecting value", "_load_labels"), read)
      ELSE IF text.kind = "scalar"
        THEN Fail(Exc("TypeError", "object has no len()", "_load_labels"), read)
      ELSE IF Len(items) # expected
        THEN Fail(Exc("ValueError", "Metadata count does not match embeddings", "_load_labels"), read)
      ELSE IF \E k \in 1..Len(items) : items[k].kind # "dict"
        THEN Fail(Exc("AttributeError", "object has no attribute 'get'", "_load_labels"), read)
      ELSE Ok(LabelsOf(items), read)

(* -------------------------------- _pca_2d ----------------------------- *)
\* Shape of vt from np.linalg.svd(centered, full_matrices=False) for an
\* N x D matrix: min(N, D) right-singular vectors of length D.
SvdVtShape(shape) == <<Min(shape[1], shape[2]), shape[2]>>

\* Variant of ComponentsShape that pads the missing directions with zeros.
ComponentsShapePadded(vt) == <<vt[2], 2>>

\* Shape of vt[:2].T : the first (at most two) rows of vt, transposed.
ComponentsShape(vt) == <<vt[2], Min(2, vt[1])>>

\* Shape of centered @ components.
MatMulShape(a, b) == <<a[1], b[2]>>

_pca_2d(vectors) ==
  IF Len(vectors) # 2
    THEN Fail(Exc("ValueError", "Expected a 2D array of embeddings", "_pca_2d"), <<>>)
  ELSE LET centered == vectors
           vt == SvdVtShape(centered)
           components == ComponentsShape(vt)
       IN  Ok(MatMulShape(centered, components), <<>>)

(* ------------------------------ _build_html --------------------------- *)
\* zip(points, labels): pairs up to the shorter of the two.
Zip(points, lbls) ==
  [k \in 1..Min(Len(points), Len(lbls)) |-> <<points[k], lbls[k]>>]

\* One payload record, from a pair whose point unpacks into (x, y).
PayloadRecord(pair) ==
  [x |-> pair[1][1], y |-> pair[1][2], label |-> pair[2]]

\* Variant of _build_html that zips strictly (zip(..., strict=True)).
_build_html_strict(points, lbls) ==
  LET pairs == Zip(points, lbls)
  IN  IF Len(points) # Len(lbls)
        THEN Fail(Exc("ValueError", "zip() arguments differ in length", "_build_html"), <<>>)
      ELSE Ok([kind |-> "html",
               payload |-> [k \in 1..Len(pairs) |-> PayloadRecord(pairs[k])]],
              <<>>)

\* Positions of the pairs whose point does not unpack into (x, y).
BadPairs(pairs) == {k \in 1..Len(pairs) : Len(pairs[k][1]) # 2}

\* The first of them: the comprehension unpacks the pairs in order and
\* stops at the first failure.
FirstBadPair(pairs) ==
  CHOOSE k \in BadPairs(pairs) : \A j \in BadPairs(pairs) : k <= j

_build_html(points, lbls) ==
  LET pairs == Zip(points, lbls)
  IN  IF BadPairs(pairs) # {}
        THEN IF Len(pairs[FirstBadPair(pairs)][1]) < 2
               THEN Fail(Exc("ValueError", "not enough values to unpack", "_build_html"), <<>>)
               ELSE Fail(Exc("ValueError", "too many values to unpack", "_build_html"), <<>>)
      ELSE Ok([kind |-> "html",
               payload |-> [k \in 1..Len(pairs) |-> PayloadRecord(pairs[k])]],
              <<>>)

(* ---------------------------------- main ----------------------------- *)
\* An exception leaves main: nothing after the raising statement runs.
Raise(e) ==
  /\ err' = <<e>>
  /\ pc' = "raised"

\* Path.write_text(html): the file is opened for writing (truncating it),
\* written and closed.  The environment decides the outcome: the write
\* completes, the open is refused, or the device fills after the truncation.
WriteOutcomes == {"ok", "denied", "full"}

PartialText == [kind |-> "partial", payload |-> <<>>]

\* Variant of write_text that swallows the error of a failed write.
write_text_swallow(path, text, outcome) ==
  LET call == <<IoCall("write", path)>>
  IN  CASE outcome = "ok" ->
             [err |-> <<>>, fs |-> [fs EXCEPT ![path] = File(text)], io |-> call]
        [] outcome = "denied" ->
             [err |-> <<>>, fs |-> fs, io |-> call]
        [] outcome = "full" ->
             [err |-> <<>>, fs |-> [fs EXCEPT ![path] = File(PartialText)], io |-> call]

write_text(path, text, outcome) ==
  LET call == <<IoCall("write", path)>>
  IN  CASE outcome = "ok" ->
             [err |-> <<>>, fs |-> [fs EXCEPT ![path] = File(text)], io |-> call]
        [] outcome = "denied" ->
             [err |-> <<Exc("PermissionError", "Permission denied", "write_text")>>,
              fs |-> fs, io |-> call]
        [] outcome = "full" ->
             [err |-> <<Exc("OSError", "No space left on device", "write_text")>>,
              fs |-> [fs EXCEPT ![path] = File(PartialText)], io |-> call]

\* output_path.resolve() for a relative path.
Resolve(path) == Cwd \o "/" \o path

\* [tuple(row) for row in coords] for coords of the given shape.
RowTuples(shape) ==
  [i \in 1..shape[1] |-> [j \in 1..shape[2] |-> [row |-> i - 1, axis |-> j - 1]]]

Init ==
  /\ argv \in {<<>>, <<ArgOutput>>}
  /\ \E data \in {Absent} \cup {File(st) : st \in Stores},
        meta \in {Absent} \cup {File(t) : t \in MetaTexts},
        out \in {Absent, File(OldText)} :
       fs = [p \in Paths |->
               IF p = DATA_FILE THEN data ELSE IF p = META_FILE THEN meta ELSE out]
  /\ pc = "entry"
  /\ output_path = <<>>
  /\ embeddings = <<>>
  /\ labels = <<>>
  /\ coords = <<>>
  /\ coords_tuples = <<>>
  /\ html = <<>>
  /\ err = <<>>
  /\ io = <<>>
  /\ stdout = <<>>
  /\ stderr = <<>>
  /\ exit_status = <<>>

\* Variant of Entry that opens the output file for writing before main runs.
EntryOpensOutput ==
  /\ pc = "entry"
  /\ output_path' = <<IF Len(argv) > 0 THEN argv[1] ELSE DEFAULT_OUTPUT>>
  /\ fs' = [fs EXCEPT ![output_path'[1]] = File(PartialText)]
  /\ io' = io \o <<IoCall("write", output_path'[1])>>
  /\ pc' = "load_embeddings"
  /\ UNCHANGED <<argv, embeddings, labels, coords, coords_tuples, html,
                 err, stdout, stderr, exit_status>>

\* Lines 108-110: pick the target and call main.
Entry ==
  /\ pc = "entry"
  /\ output_path' = <<IF Len(argv) > 0 THEN argv[1] ELSE DEFAULT_OUTPUT>>
  /\ pc' = "load_embeddings"
  /\ UNCHANGED <<argv, fs, embeddings, labels, coords, coords_tuples, html,
                 err, io, stdout, stderr, exit_status>>

\* Variant of MainLoadEmbeddings that probes both input paths before loading.
MainLoadEmbeddingsChecksBoth ==
  /\ pc = "load_embeddings"
  /\ LET r == _load_embeddings(DATA_FILE)
     IN  /\ io' = io \o <<IoCall("exists", META_FILE)>> \o r.io
         /\ IF r.err # <<>>
              THEN Raise(r.err[1]) /\ UNCHANGED embeddings
              ELSE embeddings' = <<r.val>> /\ pc' = "load_labels" /\ UNCHANGED err
  /\ UNCHANGED <<argv, fs, output_path, labels, coords, coords_tuples, html,
                 stdout, stderr, exit_status>>

\* Line 98.
MainLoadEmbeddings ==
  /\ pc = "load_embeddings"
  /\ LET r == _load_embeddings(DATA_FILE)
     IN  /\ io' = io \o r.io
         /\ IF r.err # <<>>
              THEN Raise(r.err[1]) /\ UNCHANGED embeddings
              ELSE embeddings' = <<r.val>> /\ pc' = "load_labels" /\ UNCHANGED err
  /\ UNCHANGED <<argv, fs, output_path, labels, coords, coords_tuples, html,
                 stdout, stderr, exit_status>>

\* Line 99: embeddings.shape[0] is evaluated before the call.
MainLoadLabels ==
  /\ pc = "load_labels"
  /\ IF Len(embeddings[1]) = 0
       THEN /\ Raise(Exc("IndexError", "tuple index out of range", "main"))
            /\ UNCHANGED <<labels, io>>
       ELSE LET r == _load_labels(META_FILE, embeddings[1][1])
            IN  /\ io' = io \o r.io
                /\ IF r.err # <<>>
                     THEN Raise(r.err[1]) /\ UNCHANGED labels
                     ELSE labels' = <<r.val>> /\ pc' = "pca" /\ UNCHANGED err
  /\ UNCHANGED <<argv, fs, output_path, embeddings, coords, coords_tuples, html,
                 stdout, stderr, exit_status>>

\* Line 100.
MainPca ==
  /\ pc = "pca"
  /\ LET r == _pca_2d(embeddings[1])
     IN  IF r.err # <<>>
           THEN Raise(r.err[1]) /\ UNCHANGED coords
           ELSE coords' = <<r.val>> /\ pc' = "tuples" /\ UNCHANGED err
  /\ UNCHANGED <<argv, fs, output_path, embeddings, labels, coords_tuples, html,
                 io, stdout, stderr, exit_status>>

\* Line 102.
MainTuples ==
  /\ pc = "tuples"
  /\ coords_tuples' = <<RowTuples(coords[1])>>
  /\ pc' = "build_html"
  /\ UNCHANGED <<argv, fs, output_path, embeddings, labels, coords, html,
                 err, io, stdout, stderr, exit_status>>

\* Line 103.
MainBuildHtml ==
  /\ pc = "build_html"
  /\ LET r == _build_html(coords_tuples[1], labels[1])
     IN  IF r.err # <<>>
           THEN Raise(r.err[1]) /\ UNCHANGED html
           ELSE html' = <<r.val>> /\ pc' = "write" /\ UNCHANGED err
  /\ UNCHANGED <<argv, fs, output_path, embeddings, labels, coords,
                 coords_tuples, io, stdout, stderr, exit_status>>

\* Line 104.
MainWrite ==
  /\ pc = "write"
  /\ \E outcome \in WriteOutcomes :
       LET r == write_text(output_path[1], html[1], outcome)
       IN  /\ fs' = r.fs
           /\ io' = io \o r.io
           /\ IF r.err # <<>>
                THEN Raise(r.err[1])
                ELSE pc' = "print" /\ UNCHANGED err
  /\ UNCHANGED <<argv, output_path, embeddings, labels, coords, coords_tuples,
                 html, stdout, stderr, exit_status>>

\* Line 105.
MainPrint ==
  /\ pc = "print"
  /\ stdout' = Append(stdout, "Wrote view to " \o Resolve(output_path[1]))
  /\ pc' = "returned"
  /\ UNCHANGED <<argv, fs, output_path, embeddings, labels, coords,
                 coords_tuples, html, err, io, stderr, exit_status>>

\* main returned: the interpreter exits with status 0.
ExitSuccess ==
  /\ pc = "returned"
  /\ exit_status' = <<0>>
  /\ pc' = "exited"
  /\ UNCHANGED <<argv, fs, output_path, embeddings, labels, coords,
                 coords_tuples, html, err, io, stdout, stderr>>

\* An uncaught exception: the interpreter prints the traceback to standard
\* error and exits with status 1.
ExitFailure ==
  /\ pc = "raised"
  /\ stderr' = Append(stderr, err[1].type \o ": " \o err[1].msg)
  /\ exit_status' = <<1>>
  /\ pc' = "exited"
  /\ UNCHANGED <<argv, fs, output_path, embeddings, labels, coords,
                 coords_tuples, html, err, io, stdout>>

Next ==
  \/ Entry
  \/ MainLoadEmbeddings
  \/ MainLoadLabels
  \/ MainPca
  \/ MainTuples
  \/ MainBuildHtml
  \/ MainWrite
  \/ MainPrint
  \/ ExitSuccess
  \/ ExitFailure

Spec == Init /\ [][Next]_vars

(* ------------------- _build_html exercised on its own ------------------ *)
\* Points of exactly two coordinates, one per point identity.
Points2 == {<<[row |-> r, axis |-> 0], [row |-> r, axis |-> 1]>> : r \in 0..MaxPoints}

LabelTexts == {"a.txt", "item 1"}

\* main stands at line 103 with arbitrary arguments for the call.
InitBuild ==
  /\ argv = <<>>
  /\ fs = [p \in Paths |-> Absent]
  /\ pc = "build_html"
  /\ output_path = <<DEFAULT_OUTPUT>>
  /\ embeddings = <<>>
  /\ coords = <<>>
  /\ coords_tuples \in {<<pts>> : pts \in SeqsUpTo(Points2, MaxPoints)}
  /\ labels \in {<<ls>> : ls \in SeqsUpTo(LabelTexts, MaxLabels)}
  /\ html = <<>>
  /\ err = <<>>
  /\ io = <<>>
  /\ stdout = <<>>
  /\ stderr = <<>>
  /\ exit_status = <<>>

NextBuild == MainBuildHtml

SpecBuild == InitBuild /\ [][NextBuild]_vars

(* ------------------------------ properties ---------------------------- *)
Terminated == pc \in {"raised", "exited"}

OutputPaths == {DEFAULT_OUTPUT, ArgOutput}

\* Some call so far wrote to a file.
Wrote == \E k \in 1..Len(io) : io[k].op = "write"

\* Every output file is as it was before the run.
OutputUntouched == \A p \in OutputPaths : fs[p] \in {Absent, File(OldText)}

\* The exception, if any, left a step that precedes the write.
FailedBeforeWrite == err # <<>> /\ err[1].where # "write_text"

StoredArray == fs[DATA_FILE].data[1]
HasStoredArray == fs[DATA_FILE].exists /\ Len(fs[DATA_FILE].data) > 0
MetaItems == fs[META_FILE].data.items
MetaIsList == fs[META_FILE].exists /\ fs[META_FILE].data.kind = "list"
MetaIsRecords == MetaIsList /\ \A k \in 1..Len(MetaItems) : MetaItems[k].kind = "dict"

\* C1: whenever a step before the write raised (matrix load, label load or
\* validation, projection, document construction), no write call has been
\* made and every output file still has its prior state.
C1_NoOutputAfterFailure == FailedBeforeWrite => (~Wrote /\ OutputUntouched)

\* C1 case: the run ended on a label/row count mismatch and the existing
\* output file is untouched.
C1_Witness ==
  /\ pc = "exited"
  /\ err # <<>>
  /\ err[1].msg = "Metadata count does not match embeddings"
  /\ fs[DEFAULT_OUTPUT] = File(OldText)
  /\ output_path = <<DEFAULT_OUTPUT>>

\* C2: when the array store is absent, no call ever touches the metadata
\* file, labels stay unbound, and the run ends with the FileNotFoundError of
\* _load_embeddings -- whether or not the metadata file exists.
C2_MissingStoreFailsBeforeLabels ==
  ~fs[DATA_FILE].exists =>
    /\ \A k \in 1..Len(io) : io[k].path # META_FILE
    /\ labels = <<>>
    /\ pc \in {"entry", "load_embeddings", "raised", "exited"}
    /\ Terminated =>
         /\ err # <<>>
         /\ err[1].type = "FileNotFoundError"
         /\ err[1].where = "_load_embeddings"

\* C2 case: the store is absent, the metadata file exists, the run is over.
C2_Witness ==
  /\ ~fs[DATA_FILE].exists
  /\ fs[META_FILE].exists
  /\ pc = "exited"
  /\ io = <<IoCall("exists", DATA_FILE)>>

\* C3 (as claimed): for a rank-2 matrix with N >= 1 rows and D >= 2 columns
\* the projection has N rows of exactly 2 coordinates.
C3_TwoCoordinatesPerRow ==
  (coords # <<>> /\ embeddings[1][1] >= 1 /\ embeddings[1][2] >= 2)
    => coords[1] = <<embeddings[1][1], 2>>

\* C4: for an existing metadata file holding a JSON array, once the label
\* step is over either labels are bound and as many as the matrix has rows,
\* or the step failed; a parsed length different from the row count always
\* ends in the count-mismatch ValueError with labels unbound.
C4_LabelCountOrFailure ==
  (MetaIsList /\ embeddings # <<>> /\ Len(embeddings[1]) > 0
     /\ pc \notin {"entry", "load_embeddings", "load_labels"})
    => /\ labels # <<>> => Len(labels[1]) = embeddings[1][1]
       /\ labels = <<>> => (err # <<>> /\ err[1].where = "_load_labels")
       /\ Len(MetaItems) # embeddings[1][1] =>
            /\ labels = <<>>
            /\ err # <<>>
            /\ err[1].type = "ValueError"
            /\ err[1].msg = "Metadata count does not match embeddings"

\* C4 case: the metadata array has fewer records than the matrix has rows
\* and the label step has failed.
C4_Witness ==
  /\ MetaIsList
  /\ embeddings # <<>>
  /\ Len(embeddings[1]) > 0
  /\ Len(MetaItems) < embeddings[1][1]
  /\ pc = "raised"
  /\ err[1].where = "_load_labels"

\* The placeholder texts of the first indices, written out.
PlaceholderTexts == <<"item 0", "item 1", "item 2", "item 3", "item 4", "item 5">>

\* The text of each filename value of Entries.
FilenameText(v) == IF v = StrVal("a.txt") THEN "a.txt" ELSE "7"

\* C5: for accepted metadata, label i is the text of record i's filename
\* when the record has one and "item i" (0-based) when it has none,
\* independently of the other records.
C5_LabelPerRecord ==
  labels # <<>> =>
    /\ Len(labels[1]) = Len(MetaItems)
    /\ \A k \in 1..Len(MetaItems) :
         labels[1][k] = IF MetaItems[k].has
                          THEN FilenameText(MetaItems[k].filename)
                          ELSE PlaceholderTexts[k]

\* C5 case: three records, only the one at index 2 lacks a filename.
C5_Witness ==
  /\ labels = << <<"a.txt", "7", "item 2">> >>
  /\ MetaIsList
  /\ ~MetaItems[3].has

\* The store's first array is a matrix with N >= 1 rows and D >= 1 columns
\* and the metadata file is an array of exactly N records.
ValidInput ==
  /\ HasStoredArray
  /\ Len(StoredArray) = 2
  /\ StoredArray[1] >= 1
  /\ StoredArray[2] >= 1
  /\ MetaIsRecords
  /\ Len(MetaItems) = StoredArray[1]

\* C6 (as claimed): for every valid input, a run that the write itself does
\* not fail ends with status 0 and the written document holds N records, in
\* input order, each with x, y and the label of its row.
C6_ValidInputSucceeds ==
  (ValidInput /\ pc = "exited" /\ ~(err # <<>> /\ err[1].where = "write_text"))
    => /\ exit_status = <<0>>
       /\ fs[output_path[1]].exists
       /\ fs[output_path[1]].data.kind = "html"
       /\ Len(fs[output_path[1]].data.payload) = StoredArray[1]
       /\ \A k \in 1..StoredArray[1] :
            /\ fs[output_path[1]].data.payload[k].x = [row |-> k - 1, axis |-> 0]
            /\ fs[output_path[1]].data.payload[k].y = [row |-> k - 1, axis |-> 1]
            /\ fs[output_path[1]].data.payload[k].label = labels[1][k]

\* C7: on points of two coordinates each, _build_html never fails and its
\* payload has min(len(points), len(labels)) records, record i pairing
\* points[i] with labels[i].
C7_TruncatesToShorter ==
  pc # "build_html" =>
    /\ err = <<>>
    /\ html # <<>>
    /\ Len(html[1].payload) =
         (IF Len(coords_tuples[1]) <= Len(labels[1])
            THEN Len(coords_tuples[1]) ELSE Len(labels[1]))
    /\ \A k \in 1..Len(html[1].payload) :
         /\ html[1].payload[k].x = coords_tuples[1][k][1]
         /\ html[1].payload[k].y = coords_tuples[1][k][2]
         /\ html[1].payload[k].label = labels[1][k]

\* C7 case: three points, one label: a payload of one record.
C7_Witness ==
  /\ pc = "write"
  /\ Len(coords_tuples[1]) = 3
  /\ Len(labels[1]) = 1
  /\ Len(html[1].payload) = 1

\* C8 (as claimed): with the labels otherwise in order, a run whose stored
\* array is not rank-2 ends with the wrong-rank ValueError of _pca_2d, and
\* whatever ends such a run is a FileNotFoundError or a ValueError.
C8_WrongRankIsValueError ==
  (HasStoredArray /\ Len(StoredArray) # 2 /\ MetaIsRecords
     /\ (Len(StoredArray) > 0 => Len(MetaItems) = StoredArray[1])
     /\ pc = "exited")
    => /\ err # <<>>
       /\ (IsInstance(err[1], "FileNotFoundError") \/ IsInstance(err[1], "ValueError"))
       /\ err[1].msg = "Expected a 2D array of embeddings"

\* C9: at most one line is printed, and only with the complete document in
\* the output file and no exception; after any exception, the write's
\* included, nothing is printed and the exit status is not 0; a run without
\* exception exits with status 0 after printing the resolved path.
C9_PrintOnlyOnSuccess ==
  /\ Len(stdout) <= 1
  /\ stdout # <<>> =>
       /\ err = <<>>
       /\ html # <<>>
       /\ html[1].kind = "html"
       /\ fs[output_path[1]] = File(html[1])
       /\ stdout[1] \in {"Wrote view to /cwd/embeddings_view.html",
                         "Wrote view to /cwd/out.html"}
  /\ err # <<>> => stdout = <<>>
  /\ pc = "exited" =>
       /\ err # <<>> => (exit_status # <<0>> /\ Len(stderr) = 1)
       /\ err = <<>> => (exit_status = <<0>> /\ Len(stdout) = 1 /\ stderr = <<>>)

\* C9 case: a successful run to the default path, finished.
C9_Witness ==
  /\ pc = "exited"
  /\ exit_status = <<0>>
  /\ stdout = <<"Wrote view to /cwd/embeddings_view.html">>

\* C10: the projection of an N x D matrix (N, D >= 1) has N rows of
\* min(2, N, D) coordinates; when min(N, D) < 2 nothing is ever written, and
\* a run whose labels loaded ends with the unpacking ValueError of
\* _build_html.
C10_NarrowProjectionFailsInBuild ==
  (embeddings # <<>> /\ Len(embeddings[1]) = 2) =>
    /\ coords # <<>> =>
         coords[1] = <<embeddings[1][1],
                       IF embeddings[1][1] >= 2 /\ embeddings[1][2] >= 2 THEN 2 ELSE 1>>
    /\ (embeddings[1][1] < 2 \/ embeddings[1][2] < 2) =>
         /\ ~Wrote
         /\ OutputUntouched
         /\ html = <<>>
         /\ pc \notin {"write", "print", "returned"}
         /\ (Terminated /\ labels # <<>>) =>
              /\ err # <<>>
              /\ err[1].where = "_build_html"
              /\ err[1].type = "ValueError"
              /\ err[1].msg = "not enough values to unpack"

\* C10 case: a single row of three columns, labels loaded, run over.
C10_Witness ==
  /\ embeddings = << <<1, 3>> >>
  /\ labels # <<>>
  /\ coords = << <<1, 1>> >>
  /\ pc = "exited"
  /\ exit_status = <<1>>

====
